---- MODULE Spec2Model ----
(***************************************************************************)
(* A model of gfft(inp, in_ax, out_ax, ftmachine, in_zero_center,          *)
(* out_zero_center, enforce_hermitian_symmetry, W, alpha, verbose) of      *)
(* gfft.py.  Init fixes the arguments of a call and the actions are the    *)
(* consecutive blocks of the function body; NewCall, where a specification *)
(* includes it, starts a further call in the same process.  The numeric    *)
(* kernels of the gridding module and of np.fft are collaborators: the     *)
(* model records that they were called, in which order, on which axes and  *)
(* with which grid parameters, and follows the elements of the array only  *)
(* through the shifts of MODE_RR.  Floating point rounding is not          *)
(* modelled: numbers are exact rationals that remember whether Python      *)
(* holds them as int or as float.                                          *)
(***************************************************************************)
EXTENDS Integers, Sequences, FiniteSets, TLC

(***************************************************************************)
(* Bounds of the model.                                                    *)
(***************************************************************************)
MaxLen == 4      \* longest axis list / highest array rank tried
MaxCount == 3    \* largest pixel count nx of a regular axis
MaxDen == 2      \* alpha ranges over the fractions k/d in [1,2], d <= MaxDen
MaxCalls == 2    \* the calls made one after the other in one process

(***************************************************************************)
(* Python numbers: the rational n/d (d > 0, lowest terms) and f = TRUE     *)
(* when the value is a float, FALSE when it is an int.                     *)
(***************************************************************************)
Abs(x) == IF x < 0 THEN -x ELSE x

RECURSIVE GCD(_, _)
GCD(a, b) == IF b = 0 THEN a ELSE GCD(b, a % b)

Norm(n, d, f) ==
    LET g == GCD(Abs(n), d)
    IN  [n |-> n \div g, d |-> d \div g, f |-> f]

PyI(k) == [n |-> k, d |-> 1, f |-> FALSE]
PyF(n, d) == Norm(n, d, TRUE)

Mul(a, b) == Norm(a.n * b.n, a.d * b.d, a.f \/ b.f)
Sub(a, b) == Norm(a.n * b.d - b.n * a.d, a.d * b.d, a.f \/ b.f)
\* true division, b # 0: the result is a float
Div(a, b) ==
    IF b.n > 0 THEN Norm(a.n * b.d, a.d * b.n, TRUE)
               ELSE Norm(-(a.n * b.d), a.d * (-b.n), TRUE)

\* int(x): truncation toward zero, the result is an int
PyInt(a) == PyI(IF a.n >= 0 THEN a.n \div a.d ELSE -((-a.n) \div a.d))

IsInt(a) == ~a.f
Leq(a, b) == a.n * b.d <= b.n * a.d

(***************************************************************************)
(* Argument values.                                                        *)
(***************************************************************************)
\* an element of an axis list: a coordinate array, or a tuple (dx, nx)
Arr == [kind |-> "arr", dx |-> PyI(0), n |-> 0]
Tup(dx, n) == [kind |-> "tup", dx |-> dx, n |-> n]

\* in_ax / out_ax: a plain list l0, or the tuple (l0, l1) of two lists
AxList(l) == [isTuple |-> FALSE, l0 |-> l, l1 |-> <<>>]
AxPair(a, b) == [isTuple |-> TRUE, l0 |-> a, l1 |-> b]

\* len(ax)
PyLen(ax) == IF ax.isTuple THEN 2 ELSE Len(ax.l0)

\* a string or a list of strings; a bool or a list of bools
StrV(s) == [isList |-> FALSE, s |-> s, l |-> <<>>]
StrL(l) == [isList |-> TRUE, s |-> "", l |-> l]
BoolV(b) == [isList |-> FALSE, b |-> b, l |-> <<>>]
BoolL(l) == [isList |-> TRUE, b |-> FALSE, l |-> l]

\* the axes argument of the np.fft functions: None (all axes) or a list of axis numbers
AxesNone == [isNone |-> TRUE, l |-> <<>>]
AxesList(l) == [isNone |-> FALSE, l |-> l]

\* l.count(x)
Count(l, x) == Cardinality({k \in 1..Len(l) : l[k] = x})

\* validate_iterrable_types(l, t)
validate_iterrable_types(l, t) == \A k \in 1..Len(l) : l[k].kind = t

\* "len(l) != N", the test of lines 280, 314, 327 and 349
BadLengthMut(l, n) == Len(l) > n
BadLength(l, n) == Len(l) # n

\* s.lower()
LowerMut(s) == s
LowerWordMut(s) == IF s \in {"fft", "ifft", "none"} THEN s ELSE "fft"
Lower(s) ==
    CASE s = "FFT" -> "fft"
      [] s = "Ifft" -> "ifft"
      [] s = "NONE" -> "none"
      [] s = "FFTW" -> "fftw"
      [] OTHER -> s

MODE_NOTSET == -1
MODE_RR == 0
MODE_IR == 1
MODE_RI == 2
MODE_II == 3

FTM_FFT == "fft"
FTM_IFFT == "ifft"
FTM_NONE == "none"

VARIABLES
    req,                 \* the arguments of the call
    pc,                  \* the block of gfft about to run, "done" or "raised"
    err,                 \* the exception raised, "" if none
    mode, N,             \* locals of gfft, lines 214-215
    classified,          \* history: mode and N as set by lines 217-248
    do_fft, do_ifft, fftaxes, ifftaxes,
    do_preshift, do_postshift, preshift_axes, postshift_axes,
    hermitianized_axes,
    in_ax, out_ax,       \* the local names in_ax, out_ax (rebound in MODE_II)
    dx, Nx, xmin,        \* <<dx, dy, dz>>, <<Nx, Ny, Nz>>, <<xmin, ymin, zmin>>
    du, Nu, umin,        \* <<du, dv, dw>>, <<Nu, Nv, Nw>>, <<umin, vmin, wmin>>
    tndx, lo, os,        \* <<tndxx, ..>>, <<xl|ul, ..>>, shape of the padded array
    steps,               \* history: the array operations executed so far
    names,               \* the array objects bound to inp, to the working
                         \* array, to out and to the returned value
    data,                \* MODE_RR: the contents of the array in flight
    written,             \* the objects written in place so far
    printed,             \* the number of calls of print so far
    numpy_strict,        \* the numpy of this process rejects float sizes
    calls                \* history: the earlier calls and their outcomes

cfgVars == <<do_fft, do_ifft, fftaxes, ifftaxes, do_preshift, do_postshift,
             preshift_axes, postshift_axes, hermitianized_axes>>
gridVars == <<dx, Nx, xmin, du, Nu, umin>>
offVars == <<tndx, lo, os>>
objVars == <<names, data, written>>
callVars == <<numpy_strict, calls>>
vars == <<req, pc, err, mode, N, classified, cfgVars, in_ax, out_ax,
          gridVars, offVars, steps, objVars, printed, callVars>>

St(op, axes) == [op |-> op, axes |-> axes]
\* the call of gridding.grid_1d / grid_2d / grid_3d, with the two arguments
\* it gets after the last grid origin, in the order they are passed
GridSt(kernel) == [op |-> "grid", axes |-> [isNone |-> TRUE, l |-> <<>>],
                   kernel |-> kernel]

Raise(e) == pc' = "raised" /\ err' = e

(***************************************************************************)
(* Array objects.  An object is named by the expression that created it;   *)
(* CALLER_INP is the array the caller passed.  names says which object     *)
(* each local name is bound to, "" when the name is not bound yet: inp,    *)
(* work (inp_grid or inp_oversam), out, and ret, the returned value.       *)
(***************************************************************************)
CALLER_INP == "caller:inp"
NamesAtEntry == [inp |-> CALLER_INP, work |-> "", out |-> "", ret |-> ""]

\* the objects that belong to the caller or to the function object itself
\* (the default values [] of in_ax and out_ax, line 35)
CallerOwned ==
    {CALLER_INP, "caller:in_ax", "caller:out_ax", "caller:ftmachine",
     "caller:in_zero_center", "caller:out_zero_center",
     "caller:enforce_hermitian_symmetry", "default:in_ax", "default:out_ax"}

\* a.copy(): a new object
CopyOfMut(a) == a
CopyOf(a) == "copy"

(***************************************************************************)
(* The contents of an array made from inp by shifts and transforms.  An    *)
(* array of shape <<n1, .., nr>> is base permuted along each axis:         *)
(* element j of axis k (from 0) is element perm[k][j+1] of base, and base  *)
(* is inp itself (<<>>) or the transforms applied so far, each with the    *)
(* permutation of its argument.  inp has the shape <<2, 3, 4, ..>>.        *)
(***************************************************************************)
InpShape(rank) == [k \in 1..rank |-> k + 1]
IdPerm(shape) == [k \in 1..Len(shape) |-> [j \in 1..shape[k] |-> j - 1]]
DataOfInp(rank) ==
    [shape |-> InpShape(rank), perm |-> IdPerm(InpShape(rank)), base |-> <<>>]
\* the arrays of the gridded modes are not followed element by element
NoData == [shape |-> <<>>, perm |-> <<>>, base |-> <<>>]

\* the axis numbers an axes argument selects in an array of that rank
AxesOf(axes, rank) ==
    IF axes.isNone THEN 0..(rank - 1)
    ELSE {axes.l[k] : k \in 1..Len(axes.l)}

\* np.fft.fftshift, np.fft.fftn and np.fft.ifftn raise IndexError for an
\* axis number the array does not have
AxisError(axes, rank) == \E a \in AxesOf(axes, rank) : a >= rank

\* np.fft.fftshift(x, axes): x rolled by n \div 2 along each selected axis
\* of length n, so that y[(i + n \div 2) % n] = x[i]
FftShiftMut(d, axes) ==
    IF d = NoData THEN d
    ELSE [d EXCEPT !.perm =
            [k \in 1..Len(d.shape) |->
                IF (k - 1) \in AxesOf(axes, Len(d.shape))
                   THEN LET n == d.shape[k]
                        IN  [j \in 1..n |->
                                d.perm[k][((j - 1 + (n \div 2)) % n) + 1]]
                   ELSE d.perm[k]]]
FftShift(d, axes) ==
    IF d = NoData THEN d
    ELSE [d EXCEPT !.perm =
            [k \in 1..Len(d.shape) |->
                IF (k - 1) \in AxesOf(axes, Len(d.shape))
                   THEN LET n == d.shape[k]
                        IN  [j \in 1..n |->
                                d.perm[k][((j - 1 + n - (n \div 2)) % n) + 1]]
                   ELSE d.perm[k]]]

\* np.fft.fftn / np.fft.ifftn (op) of an array: a new base
Transformed(d, op, axes) ==
    IF d = NoData THEN d
    ELSE [shape |-> d.shape, perm |-> IdPerm(d.shape),
          base |-> Append(d.base, [op |-> op,
                                   axes |-> AxesOf(axes, Len(d.shape)),
                                   perm |-> d.perm])]

(***************************************************************************)
(* Lines 122-207: the version line, then type validation.  W and alpha     *)
(* always have a valid type in this model, and so have ftmachine and the   *)
(* three flag arguments.                                                   *)
(***************************************************************************)
\* "if verbose: print(..)" k times
Printed(k) == IF req.verbose THEN printed + k ELSE printed

TypeErrorOf(r) ==
    IF r.out_ax.isTuple /\ r.in_ax.isTuple THEN "TypeError:both_tuples"
    ELSE IF r.in_ax.isTuple /\ ~validate_iterrable_types(r.in_ax.l0, "arr")
        THEN "TypeError:in_ax[0]"
    ELSE IF r.in_ax.isTuple /\ ~validate_iterrable_types(r.in_ax.l1, "tup")
        THEN "TypeError:in_ax[1]"
    ELSE IF r.out_ax.isTuple /\ ~validate_iterrable_types(r.out_ax.l0, "arr")
        THEN "TypeError:out_ax[0]"
    ELSE IF r.out_ax.isTuple /\ ~validate_iterrable_types(r.out_ax.l1, "tup")
        THEN "TypeError:out_ax[1]"
    ELSE ""

Validate ==
    /\ pc = "validate"
    /\ IF TypeErrorOf(req) # ""
          THEN Raise(TypeErrorOf(req))
          ELSE pc' = "classify" /\ err' = err
    /\ printed' = Printed(1)
    /\ UNCHANGED <<callVars, req, mode, N, classified, cfgVars, in_ax, out_ax,
                   gridVars, offVars, steps, objVars>>

(***************************************************************************)
(* Lines 214-248: the mode and the number of dimensions.                   *)
(***************************************************************************)
ModeOfMut(rank, inax, outax) ==
    IF inax.isTuple \/ outax.isTuple THEN MODE_II
    ELSE IF PyLen(inax) = 0 THEN MODE_RR
    ELSE IF inax.l0[1].kind = "tup" THEN MODE_RI
    ELSE MODE_IR
ModeOf(rank, inax, outax) ==
    IF PyLen(inax) = 0 THEN MODE_RR
    ELSE IF inax.isTuple \/ outax.isTuple THEN MODE_II
    ELSE IF inax.l0[1].kind = "tup" THEN MODE_RI
    ELSE MODE_IR

DimOf(rank, inax, outax) ==
    IF PyLen(inax) = 0 THEN rank
    ELSE IF inax.isTuple \/ outax.isTuple
        THEN IF outax.isTuple THEN PyLen(inax) ELSE PyLen(outax)
    ELSE PyLen(inax)

\* line 246: the length check of the two plain lists
LenMismatchMut(inax, outax) ==
    /\ PyLen(inax) # 0
    /\ ~(inax.isTuple \/ outax.isTuple)
    /\ PyLen(outax) < PyLen(inax)
LenMismatch(inax, outax) ==
    /\ PyLen(inax) # 0
    /\ ~(inax.isTuple \/ outax.isTuple)
    /\ PyLen(outax) # PyLen(inax)

Classify ==
    /\ pc = "classify"
    /\ mode' = ModeOf(req.rank, in_ax, out_ax)
    /\ N' = DimOf(req.rank, in_ax, out_ax)
    /\ classified' = [mode |-> mode', N |-> N']
    /\ IF LenMismatch(in_ax, out_ax)
          THEN Raise("TypeError:len")
          ELSE pc' = "dims" /\ err' = err
    /\ UNCHANGED <<callVars, req, cfgVars, in_ax, out_ax, gridVars, offVars, steps>>
    /\ UNCHANGED <<objVars, printed>>

(***************************************************************************)
(* Lines 250-256: the checks on N.                                         *)
(***************************************************************************)
DimErrorOfMut(m, n) ==
    IF n = 0 \/ m = MODE_NOTSET THEN "Exception:dimensionality"
    ELSE IF n > 3 THEN "Exception:unsupported_dims"
    ELSE ""
DimErrorOf(m, n) ==
    IF n = 0 \/ m = MODE_NOTSET THEN "Exception:dimensionality"
    ELSE IF n > 3 /\ m # MODE_RR THEN "Exception:unsupported_dims"
    ELSE ""

CheckDims ==
    /\ pc = "dims"
    /\ IF DimErrorOf(mode, N) # ""
          THEN Raise(DimErrorOf(mode, N))
          ELSE pc' = "ftmachine" /\ err' = err
    /\ printed' = IF DimErrorOf(mode, N) # "" THEN printed ELSE Printed(2)
    /\ UNCHANGED <<callVars, req, mode, N, classified, cfgVars, in_ax, out_ax,
                   gridVars, offVars, steps, objVars>>

(***************************************************************************)
(* Lines 266-289: which axes get which transform.  Axis numbers are those  *)
(* of Python, from 0.                                                      *)
(***************************************************************************)
\* the axis numbers i of list l, in order, with Lower(l[i]) = which
RECURSIVE AxesWith(_, _, _)
AxesWith(l, which, k) ==
    IF k > Len(l) THEN <<>>
    ELSE (IF Lower(l[k]) = which THEN <<k - 1>> ELSE <<>>)
         \o AxesWith(l, which, k + 1)

\* "name += [i]" (lines 286, 289, 320, 333) writes the list bound to name,
\* a list made by this call, once for every axis number it ends up with
Extended(name, axes) == IF axes.l # <<>> THEN {name} ELSE {}

ResolveFt ==
    /\ pc = "ftmachine"
    /\ IF ~req.ftmachine.isList
          THEN /\ do_fft' = (Lower(req.ftmachine.s) = FTM_FFT)
               /\ fftaxes' = IF Lower(req.ftmachine.s) = FTM_FFT
                                THEN AxesNone ELSE AxesList(<<>>)
               /\ do_ifft' = (Lower(req.ftmachine.s) = FTM_IFFT)
               /\ ifftaxes' = IF Lower(req.ftmachine.s) = FTM_IFFT
                                 THEN AxesNone ELSE AxesList(<<>>)
               /\ pc' = "fallback" /\ err' = err
          ELSE IF BadLength(req.ftmachine.l, N)
          THEN /\ Raise("Exception:ftmachine_length")
               /\ do_fft' = FALSE /\ do_ifft' = FALSE
               /\ fftaxes' = AxesList(<<>>) /\ ifftaxes' = AxesList(<<>>)
          ELSE /\ fftaxes' = AxesList(AxesWith(req.ftmachine.l, FTM_FFT, 1))
               /\ ifftaxes' = AxesList(AxesWith(req.ftmachine.l, FTM_IFFT, 1))
               /\ do_fft' = (fftaxes'.l # <<>>)
               /\ do_ifft' = (ifftaxes'.l # <<>>)
               /\ pc' = "fallback" /\ err' = err
    /\ written' = written \cup Extended("fftaxes", fftaxes')
                           \cup Extended("ifftaxes", ifftaxes')
    /\ UNCHANGED <<callVars, req, mode, N, classified, do_preshift, do_postshift,
                   preshift_axes, postshift_axes, hermitianized_axes,
                   in_ax, out_ax, gridVars, offVars, steps, names, data,
                   printed>>

(***************************************************************************)
(* Lines 293-298: nothing to transform, so only shift, in MODE_RR.         *)
(***************************************************************************)
\* fftaxes == [] in Python: None is not equal to []
IsEmptyList(a) == ~a.isNone /\ a.l = <<>>

NoTransformMut ==
    /\ (do_fft = FALSE /\ do_ifft = FALSE)
    /\ (fftaxes.isNone /\ ifftaxes.isNone)
NoTransform ==
    \/ (do_fft = FALSE /\ do_ifft = FALSE)
    \/ (IsEmptyList(fftaxes) /\ IsEmptyList(ifftaxes))

Fallback ==
    /\ pc = "fallback"
    /\ mode' = IF NoTransform THEN MODE_RR ELSE mode
    /\ pc' = "shifts"
    /\ UNCHANGED <<callVars, req, err, N, classified, cfgVars, in_ax, out_ax,
                   gridVars, offVars, steps>>
    /\ UNCHANGED <<objVars, printed>>

(***************************************************************************)
(* Lines 303-333: which axes are shifted before and after the transform.   *)
(***************************************************************************)
\* the axis numbers i of the list of bools l, in order, with l[i] true
RECURSIVE AxesSet(_, _)
AxesSet(l, k) ==
    IF k > Len(l) THEN <<>>
    ELSE (IF l[k] THEN <<k - 1>> ELSE <<>>) \o AxesSet(l, k + 1)

\* the pair do_*shift, *shift_axes of a zero-center argument z
ShiftAxesMut(z) ==
    IF ~z.isList THEN AxesList(<<>>)
    ELSE AxesList(AxesSet(z.l, 1))
ShiftAxes(z) ==
    IF ~z.isList THEN IF z.b THEN AxesNone ELSE AxesList(<<>>)
    ELSE AxesList(AxesSet(z.l, 1))
DoShift(z) == IF ~z.isList THEN z.b ELSE AxesSet(z.l, 1) # <<>>

ResolveShift ==
    /\ pc = "shifts"
    /\ IF req.in_zero_center.isList /\ BadLength(req.in_zero_center.l, N)
          THEN /\ Raise("Exception:in_zero_center_length")
               /\ UNCHANGED <<do_preshift, preshift_axes,
                              do_postshift, postshift_axes>>
          ELSE /\ do_preshift' = DoShift(req.in_zero_center)
               /\ preshift_axes' = ShiftAxes(req.in_zero_center)
               /\ IF req.out_zero_center.isList /\ BadLength(req.out_zero_center.l, N)
                     THEN /\ Raise("Exception:out_zero_center_length")
                          /\ UNCHANGED <<do_postshift, postshift_axes>>
                     ELSE /\ do_postshift' = DoShift(req.out_zero_center)
                          /\ postshift_axes' = ShiftAxes(req.out_zero_center)
                          /\ pc' = "hermitian" /\ err' = err
    /\ written' = written \cup Extended("preshift_axes", preshift_axes')
                           \cup Extended("postshift_axes", postshift_axes')
    /\ UNCHANGED <<callVars, req, mode, N, classified, do_fft, do_ifft, fftaxes,
                   ifftaxes, hermitianized_axes, in_ax, out_ax, gridVars,
                   offVars, steps, names, data, printed>>

(***************************************************************************)
(* Lines 338-361: which axes are hermitianized.                            *)
(***************************************************************************)
HermAxesMut(h, n) ==
    IF ~h.isList THEN [i \in 1..(IF h.b THEN n + 1 ELSE n) |-> h.b]
    ELSE [i \in 1..Len(h.l) |-> h.l[i]]
HermAxes(h, n) ==
    IF ~h.isList THEN [i \in 1..n |-> h.b]
    ELSE [i \in 1..Len(h.l) |-> h.l[i]]

ResolveHerm ==
    /\ pc = "hermitian"
    /\ IF req.enforce_hermitian_symmetry.isList
            /\ BadLength(req.enforce_hermitian_symmetry.l, N)
          THEN /\ Raise("Exception:hermitian_length")
               /\ UNCHANGED hermitianized_axes
          ELSE /\ hermitianized_axes' = HermAxes(req.enforce_hermitian_symmetry, N)
               /\ IF Len(hermitianized_axes') # N
                     THEN Raise("Exception:hermitianized_axes")
                     ELSE pc' = "summary" /\ err' = err
    /\ written' = written \cup (IF hermitianized_axes' # <<>>
                                    THEN {"hermitianized_axes"} ELSE {})
    /\ UNCHANGED <<callVars, req, mode, N, classified, do_fft, do_ifft, fftaxes,
                   ifftaxes, do_preshift, do_postshift, preshift_axes,
                   postshift_axes, in_ax, out_ax, gridVars, offVars, steps,
                   names, data, printed>>

(***************************************************************************)
(* Lines 366-398: the printed summary; then the branch on mode.            *)
(***************************************************************************)
BranchOf(m) ==
    CASE m = MODE_RR -> "rr"
      [] m = MODE_IR -> "ir_grid"
      [] m = MODE_RI -> "ri_plan"
      [] m = MODE_II -> "ii_plan"

\* axes.count(i) is an AttributeError when axes is None
CountRaises(axes) == axes.isNone
\* "axes == None or axes.count(i) > 0": count is called only when the
\* first operand is false
RowTestRaisesMut(axes) == CountRaises(axes)
RowTestRaises(axes) == ~axes.isNone /\ CountRaises(axes)

\* the exception of lines 370-398 run for n axes with the lists given:
\* the tests of a row, hermitianized_axes[i], and print(pstr) after the
\* loop, pstr being bound by the first row
SummaryErrorOf(n, axlists, herm) ==
    IF n = 0 THEN "UnboundLocalError:pstr"
    ELSE IF \E k \in 1..Len(axlists) : RowTestRaises(axlists[k])
        THEN "AttributeError:count"
    ELSE IF Len(herm) < n THEN "IndexError:hermitianized_axes"
    ELSE ""

Summary ==
    /\ pc = "summary"
    /\ LET e == SummaryErrorOf(N, <<fftaxes, ifftaxes, preshift_axes,
                                    postshift_axes>>, hermitianized_axes)
       IN  IF req.verbose /\ e # ""
              THEN Raise(e) /\ printed' = printed + 2
              ELSE /\ pc' = BranchOf(mode) /\ err' = err
                   /\ printed' = Printed(3)
    /\ UNCHANGED <<callVars, req, mode, N, classified, cfgVars, in_ax, out_ax,
                   gridVars, offVars, steps, objVars>>

(***************************************************************************)
(* The shift / transform / shift block, lines 404-416 (MODE_RR), 540-553   *)
(* (MODE_IR), 784-798 (MODE_RI) and 1101-1115 (MODE_II).                   *)
(***************************************************************************)
TransformStepsMut ==
    (IF do_preshift THEN <<St("preshift", preshift_axes)>> ELSE <<>>)
    \o (IF do_postshift THEN <<St("postshift", postshift_axes)>> ELSE <<>>)
    \o (IF do_fft THEN <<St("fft", fftaxes)>> ELSE <<St("copy", AxesNone)>>)
    \o (IF do_ifft THEN <<St("ifft", ifftaxes)>> ELSE <<>>)
TransformSteps ==
    (IF do_preshift THEN <<St("preshift", preshift_axes)>> ELSE <<>>)
    \o (IF do_fft THEN <<St("fft", fftaxes)>> ELSE <<St("copy", AxesNone)>>)
    \o (IF do_ifft THEN <<St("ifft", ifftaxes)>> ELSE <<>>)
    \o (IF do_postshift THEN <<St("postshift", postshift_axes)>> ELSE <<>>)

\* the steps of q that run on an array of that rank: those before the
\* first one that names an axis the array does not have
FirstBad(q, rank) ==
    IF \E k \in 1..Len(q) : AxisError(q[k].axes, rank)
       THEN CHOOSE k \in 1..Len(q) :
                /\ AxisError(q[k].axes, rank)
                /\ \A j \in 1..(k - 1) : ~AxisError(q[j].axes, rank)
       ELSE Len(q) + 1
Executed(q, rank) == SubSeq(q, 1, FirstBad(q, rank) - 1)

\* the contents after the steps q
StepOn(d, s) ==
    CASE s.op \in {"preshift", "postshift"} -> FftShift(d, s.axes)
      [] s.op \in {"fft", "ifft"} -> Transformed(d, s.op, s.axes)
      [] OTHER -> d
RECURSIVE DataAfter(_, _)
DataAfter(d, q) ==
    IF q = <<>> THEN d ELSE DataAfter(StepOn(d, Head(q)), Tail(q))

\* the bindings after the steps q, the array transformed being bound to
\* the name inp (from = "inp") or to inp_grid / inp_oversam (from = "work")
BindOn(nm, from, s) ==
    CASE s.op = "preshift" -> [nm EXCEPT ![from] = "fftshift"]
      [] s.op = "fft" -> [nm EXCEPT !.out = "fftn"]
      [] s.op = "copy" -> [nm EXCEPT !.out = CopyOf(nm[from])]
      [] s.op = "ifft" -> [nm EXCEPT !.out = "ifftn"]
      [] s.op = "postshift" -> [nm EXCEPT !.out = "fftshift"]
RECURSIVE NamesAfter(_, _, _)
NamesAfter(nm, from, q) ==
    IF q = <<>> THEN nm
    ELSE NamesAfter(BindOn(nm, from, Head(q)), from, Tail(q))

\* the block run on the array bound to the name from, of that rank; next
\* is the block that follows
TransformBlock(from, rank, next) ==
    LET q == Executed(TransformSteps, rank)
    IN  /\ steps' = steps \o q
        /\ names' = NamesAfter(names, from, q)
        /\ data' = DataAfter(data, q)
        /\ IF Len(q) < Len(TransformSteps)
              THEN Raise("IndexError:axis")
              ELSE pc' = next /\ err' = err

(***************************************************************************)
(* Lines 403-422: MODE_RR.                                                 *)
(***************************************************************************)
RunRR ==
    /\ pc = "rr"
    /\ LET q == Executed(TransformSteps, req.rank)
       IN  /\ steps' = steps \o q
           /\ data' = DataAfter(data, q)
           /\ IF Len(q) < Len(TransformSteps)
                 THEN /\ Raise("IndexError:axis")
                      /\ names' = NamesAfter(names, "inp", q)
                      /\ printed' = printed
                 ELSE /\ pc' = "done" /\ err' = err
                      /\ names' = [NamesAfter(names, "inp", q) EXCEPT
                                      !.ret = NamesAfter(names, "inp", q).out]
                      /\ printed' = Printed(2)
    /\ UNCHANGED <<callVars, req, mode, N, classified, cfgVars, in_ax, out_ax,
                   gridVars, offVars, written>>

(***************************************************************************)
(* Grid parameters.  Axis k of the model (from 1) is axis k-1 of Python:   *)
(* k = 1 is x/u, k = 2 is y/v, k = 3 is z/w.                               *)
(***************************************************************************)
Zero == PyF(0, 1)
Half == PyF(1, 2)

\* the test guarding an assignment for Python axis i: "if do_shift:" when
\* N == 1; "if do_shift:" then "if axes == None:" or "if axes.count(i) > 0:"
\* when N is 2 or 3
ShiftedMut(do, axes, n, i) ==
    IF n = 1 THEN do
    ELSE do /\ (axes.isNone \/ Count(axes.l, (i + 1) % n) > 0)
Shifted(do, axes, n, i) ==
    IF n = 1 THEN do
    ELSE do /\ (axes.isNone \/ Count(axes.l, i) > 0)

\* dx = ax[k][0] and Nx = ax[k][1] for the n tuples of list l
SpacingOf(l, n) == [k \in 1..n |-> l[k].dx]
CountOf(l, n) == [k \in 1..n |-> PyI(l[k].n)]

\* du = 1./dx/Nx/alpha
WorkSpacing(sp, cnt, alpha, n) ==
    [k \in 1..n |-> Div(Div(Div(PyF(1, 1), sp[k]), cnt[k]), alpha)]

\* Nu = int(alpha*Nx), in MODE_IR and MODE_RI
WorkSize(cnt, alpha, n) == [k \in 1..n |-> PyInt(Mul(alpha, cnt[k]))]

\* MODE_II: Nu = int(alpha*Nx), but Nv = alpha*Ny and Nw = alpha*Nz
WorkSizeII(cnt, alpha, n) ==
    [k \in 1..n |-> IF k = 1 THEN PyInt(Mul(alpha, cnt[k]))
                             ELSE Mul(alpha, cnt[k])]

\* xmin = 0. ; if <shifted>: xmin = -0.5*Nx*dx
OriginOf(do, axes, size, sp, n) ==
    [k \in 1..n |-> IF Shifted(do, axes, n, k - 1)
                       THEN Mul(Mul(PyF(-1, 2), size[k]), sp[k])
                       ELSE Zero]

\* tndxx = int(0.5*Nx*(alpha-1))
CropIndexMut(cnt, alpha, n) ==
    [k \in 1..n |-> PyInt(Mul(Mul(Half, cnt[k]), alpha))]
CropIndex(cnt, alpha, n) ==
    [k \in 1..n |-> PyInt(Mul(Mul(Half, cnt[k]), Sub(alpha, PyI(1))))]

\* xl = 0 ; if <shifted>: xl = tndxx
LowOfMut(do, axes, t, n) ==
    [k \in 1..n |-> IF Shifted(do, axes, n, k - 1) THEN PyI(0) ELSE t[k]]
LowOf(do, axes, t, n) ==
    [k \in 1..n |-> IF Shifted(do, axes, n, k - 1) THEN t[k] ELSE PyI(0)]

(***************************************************************************)
(* Lines 427-538: MODE_IR, the grid parameters and the gridding.           *)
(***************************************************************************)
\* lines 445, 483, 536: "alpha, W" after the last origin
KernelArgsIR(r, n) == <<r.alpha, PyI(r.W)>>

GridIR ==
    /\ pc = "ir_grid"
    /\ dx' = SpacingOf(out_ax.l0, N)
    /\ Nx' = CountOf(out_ax.l0, N)
    /\ du' = WorkSpacing(dx', Nx', req.alpha, N)
    /\ Nu' = WorkSize(Nx', req.alpha, N)
    /\ umin' = OriginOf(do_preshift, preshift_axes, Nu', du', N)
    /\ xmin' = OriginOf(do_postshift, postshift_axes, Nx', dx', N)
    /\ steps' = steps \o <<St("astype", AxesNone),
                           GridSt(KernelArgsIR(req, N))>>
    /\ names' = [names EXCEPT !.inp = "np.array", !.work = "grid"]
    /\ data' = NoData
    /\ pc' = "ir_fft"
    /\ UNCHANGED <<callVars, req, err, mode, N, classified, cfgVars, in_ax,
                   out_ax, offVars, written, printed>>

\* lines 540-553
TransformIR ==
    /\ pc = "ir_fft"
    /\ TransformBlock("work", N, "ir_crop")
    /\ UNCHANGED <<callVars, req, mode, N, classified, cfgVars, in_ax, out_ax,
                   gridVars, offVars, written, printed>>

\* lines 555-613: crop, then divide by the grid correction
CropIR ==
    /\ pc = "ir_crop"
    /\ tndx' = CropIndex(Nx, req.alpha, N)
    /\ lo' = LowOf(do_postshift, postshift_axes, tndx', N)
    /\ os' = os
    /\ steps' = steps \o <<St("crop", AxesNone), St("gridcorr", AxesNone)>>
    /\ names' = [names EXCEPT !.out = "slice", !.ret = "divide"]
    /\ printed' = Printed(2)
    /\ pc' = "done"
    /\ UNCHANGED <<callVars, req, err, mode, N, classified, cfgVars, in_ax,
                   out_ax, gridVars, data, written>>

(***************************************************************************)
(* Lines 618-817: MODE_RI.                                                 *)
(***************************************************************************)
\* lines 621-715
PlanRI ==
    /\ pc = "ri_plan"
    /\ dx' = SpacingOf(in_ax.l0, N)
    /\ Nx' = CountOf(in_ax.l0, N)
    /\ du' = WorkSpacing(dx', Nx', req.alpha, N)
    /\ Nu' = WorkSize(Nx', req.alpha, N)
    /\ umin' = OriginOf(do_postshift, postshift_axes, Nu', du', N)
    /\ xmin' = OriginOf(do_preshift, preshift_axes, Nx', dx', N)
    /\ steps' = steps \o <<St("astype", AxesNone)>>
    /\ names' = [names EXCEPT !.inp = "np.array"]
    /\ data' = NoData
    /\ pc' = "ri_pad"
    /\ UNCHANGED <<callVars, req, err, mode, N, classified, cfgVars, in_ax,
                   out_ax, offVars, written, printed>>

\* lines 718-781: divide by the grid correction, allocate, pad
PadRI ==
    /\ pc = "ri_pad"
    /\ tndx' = CropIndex(Nx, req.alpha, N)
    /\ os' = Nu
    /\ lo' = LowOf(do_preshift, preshift_axes, tndx', N)
    /\ steps' = steps \o <<St("gridcorr", AxesNone), St("alloc", AxesNone),
                           St("pad", AxesNone)>>
    /\ names' = [names EXCEPT !.inp = "divide", !.work = "np.zeros"]
    /\ written' = written \cup {"np.zeros"}
    /\ pc' = "ri_fft"
    /\ UNCHANGED <<callVars, req, err, mode, N, classified, cfgVars, in_ax,
                   out_ax, gridVars, data, printed>>

\* lines 783-798
TransformRI ==
    /\ pc = "ri_fft"
    /\ TransformBlock("work", N, "ri_degrid")
    /\ UNCHANGED <<callVars, req, mode, N, classified, cfgVars, in_ax, out_ax,
                   gridVars, offVars, written, printed>>

\* lines 800-817
DegridRI ==
    /\ pc = "ri_degrid"
    /\ steps' = steps \o <<St("degrid", AxesNone)>>
    /\ names' = [names EXCEPT !.ret = "degrid"]
    /\ printed' = Printed(2)
    /\ pc' = "done"
    /\ UNCHANGED <<callVars, req, err, mode, N, classified, cfgVars, in_ax,
                   out_ax, gridVars, offVars, data, written>>

(***************************************************************************)
(* Lines 822-1154: MODE_II.                                                *)
(***************************************************************************)
\* lines 825-1014: the grid is defined on out_ax; on in_ax it is refused.
\* out_ax[1][k] raises IndexError when the list of tuples is shorter than N.
PlanII ==
    /\ pc = "ii_plan"
    /\ IF in_ax.isTuple
          THEN /\ Raise("Exception:in_ax_grid_not_supported")
               /\ UNCHANGED <<out_ax, gridVars>>
          ELSE IF Len(out_ax.l1) < N
          THEN /\ Raise("IndexError:out_ax[1]")
               /\ UNCHANGED <<out_ax, gridVars>>
          ELSE /\ dx' = SpacingOf(out_ax.l1, N)
               /\ Nx' = CountOf(out_ax.l1, N)
               /\ du' = WorkSpacing(dx', Nx', req.alpha, N)
               /\ Nu' = WorkSizeII(Nx', req.alpha, N)
               /\ umin' = OriginOf(do_preshift, preshift_axes, Nu', du', N)
               /\ xmin' = OriginOf(do_postshift, postshift_axes, Nx', dx', N)
               /\ out_ax' = AxList(out_ax.l0)
               /\ pc' = "ii_grid" /\ err' = err
    /\ UNCHANGED <<callVars, req, mode, N, classified, cfgVars, in_ax, offVars, steps>>
    /\ UNCHANGED <<objVars, printed>>

\* lines 1016-1031
\* line 1021: "alpha, W"; lines 1025 and 1029: "W, alpha"
KernelArgsII(r, n) ==
    IF n = 1 THEN <<r.alpha, PyI(r.W)>> ELSE <<PyI(r.W), r.alpha>>

GridII ==
    /\ pc = "ii_grid"
    /\ steps' = steps \o <<St("astype", AxesNone),
                           GridSt(KernelArgsII(req, N))>>
    /\ names' = [names EXCEPT !.inp = "np.array", !.work = "grid"]
    /\ data' = NoData
    /\ pc' = "ii_pad"
    /\ UNCHANGED <<callVars, req, err, mode, N, classified, cfgVars, in_ax,
                   out_ax, gridVars, offVars, written, printed>>

\* np.zeros((Nu*alpha, ..))
PadShapeII(size, alpha, n) == [k \in 1..n |-> Mul(size[k], alpha)]

\* ul = 0 ; if <shifted>: ul = 0.5*Nu*(alpha-1.)
PadLowII(do, axes, size, alpha, n) ==
    [k \in 1..n |-> IF Shifted(do, axes, n, k - 1)
                       THEN Mul(Mul(Half, size[k]), Sub(alpha, PyF(1, 1)))
                       ELSE PyI(0)]

AllInt(q) == \A k \in 1..Len(q) : IsInt(q[k])

\* lines 1033-1098: divide by the grid correction, allocate, pad.  A float
\* as an array dimension or as a slice bound is a TypeError in numpy from
\* 1.12 on (numpy_strict) and is truncated by the older ones.
PadII ==
    /\ pc = "ii_pad"
    /\ tndx' = tndx
    /\ os' = PadShapeII(Nu, req.alpha, N)
    /\ IF numpy_strict /\ ~AllInt(os')
          THEN /\ lo' = lo
               /\ steps' = steps \o <<St("gridcorr", AxesNone)>>
               /\ names' = [names EXCEPT !.work = "divide"]
               /\ written' = written
               /\ Raise("TypeError:float_shape")
          ELSE /\ lo' = PadLowII(do_preshift, preshift_axes, Nu, req.alpha, N)
               /\ IF numpy_strict /\ ~(AllInt(lo') /\ AllInt(Nu))
                     THEN /\ steps' = steps \o <<St("gridcorr", AxesNone),
                                                 St("alloc", AxesNone)>>
                          /\ names' = [names EXCEPT !.work = "divide"]
                          /\ written' = written
                          /\ Raise("TypeError:float_slice")
                     ELSE /\ steps' = steps \o <<St("gridcorr", AxesNone),
                                                 St("alloc", AxesNone),
                                                 St("pad", AxesNone)>>
                          /\ names' = [names EXCEPT !.work = "np.zeros"]
                          /\ written' = written \cup {"np.zeros"}
                          /\ pc' = "ii_fft" /\ err' = err
    /\ UNCHANGED <<callVars, req, mode, N, classified, cfgVars, in_ax, out_ax,
                   gridVars, data, printed>>

\* lines 1100-1115
TransformII ==
    /\ pc = "ii_fft"
    /\ TransformBlock("work", N, "ii_corr")
    /\ UNCHANGED <<callVars, req, mode, N, classified, cfgVars, in_ax, out_ax,
                   gridVars, offVars, written, printed>>

\* lines 1117-1133
CorrII ==
    /\ pc = "ii_corr"
    /\ steps' = steps \o <<St("gridcorr", AxesNone)>>
    /\ names' = [names EXCEPT !.out = "divide"]
    /\ pc' = "ii_degrid"
    /\ UNCHANGED <<callVars, req, err, mode, N, classified, cfgVars, in_ax,
                   out_ax, gridVars, offVars, data, written, printed>>

\* lines 1135-1154: out_ax[k] raises IndexError when the list of coordinate
\* arrays is shorter than N
DegridII ==
    /\ pc = "ii_degrid"
    /\ IF Len(out_ax.l0) < N
          THEN /\ Raise("IndexError:out_ax")
               /\ UNCHANGED <<steps, names, printed>>
          ELSE /\ steps' = steps \o <<St("degrid", AxesNone)>>
               /\ names' = [names EXCEPT !.ret = "degrid"]
               /\ printed' = Printed(2)
               /\ pc' = "done" /\ err' = err
    /\ UNCHANGED <<callVars, req, mode, N, classified, cfgVars, in_ax, out_ax,
                   gridVars, offVars, data, written>>

Next ==
    \/ Validate \/ Classify \/ CheckDims \/ ResolveFt \/ Fallback
    \/ ResolveShift \/ ResolveHerm \/ Summary \/ RunRR
    \/ GridIR \/ TransformIR \/ CropIR
    \/ PlanRI \/ PadRI \/ TransformRI \/ DegridRI
    \/ PlanII \/ GridII \/ PadII \/ TransformII \/ CorrII \/ DegridII

(***************************************************************************)
(* The calls tried.                                                        *)
(***************************************************************************)
W_DEFAULT == 6

Req(rank, ia, oa, ftm, izc, ozc, herm, alpha, verbose) ==
    [rank |-> rank, in_ax |-> ia, out_ax |-> oa, ftmachine |-> ftm,
     in_zero_center |-> izc, out_zero_center |-> ozc,
     enforce_hermitian_symmetry |-> herm, W |-> W_DEFAULT, alpha |-> alpha,
     verbose |-> verbose]

\* alpha: the fractions k/d of [1, 2] as floats, and the ints 1 and 2
AlphaSet ==
    {PyF(q[1], q[2]) :
        q \in {p \in (1..(2 * MaxDen)) \X (1..MaxDen) :
                  p[2] <= p[1] /\ p[1] <= 2 * p[2]}}
    \cup {PyI(1), PyI(2)}

DxSet == {PyF(1, 2), PyI(2)}

Coords(n) == [k \in 1..n |-> Arr]
Tuples(d, c) == [k \in 1..Len(c) |-> Tup(d, c[k])]
CountSeqs(n) == [1..n -> 1..MaxCount]
\* the counts 2, 3, 4, .. for axes 1, 2, 3, ..
Stair(n) == [k \in 1..n |-> k + 1]

BoolLists(n) == {BoolL(l) : l \in [1..n -> BOOLEAN]}
FlagVals(n) == {BoolV(TRUE), BoolV(FALSE)} \cup BoolLists(n)
OneHot(n) == {BoolL([k \in 1..n |-> k = j]) : j \in 1..n}
FewFlags(n) == {BoolV(TRUE), BoolV(FALSE)} \cup OneHot(n)
StrLists(n, S) == {StrL(l) : l \in [1..n -> S]}

\* the shapes of (rank, in_ax, out_ax) that lead to each mode with n axes,
\* the regular side(s) having spacing d and counts c
ShapeRR(n) == <<n, AxList(<<>>), AxList(<<>>)>>
ShapeIR(d, c) == <<1, AxList(Coords(Len(c))), AxList(Tuples(d, c))>>
ShapeRI(d, c) == <<Len(c), AxList(Tuples(d, c)), AxList(Coords(Len(c)))>>
ShapeIIout(d, c) ==
    <<1, AxList(Coords(Len(c))), AxPair(Coords(Len(c)), Tuples(d, c))>>
ShapeIIin(d, c) ==
    <<1, AxPair(Coords(Len(c)), Tuples(d, c)), AxList(Coords(Len(c)))>>

Shapes(d, c) ==
    {ShapeRR(Len(c)), ShapeIR(d, c), ShapeRI(d, c), ShapeIIout(d, c),
     ShapeIIin(d, c)}
Gridded(d, c) == {ShapeIR(d, c), ShapeRI(d, c), ShapeIIout(d, c)}

ReqOf(sh, ftm, izc, ozc, herm, alpha) ==
    Req(sh[1], sh[2], sh[3], ftm, izc, ozc, herm, alpha, TRUE)

\* one call per branch of the function, so that every block is exercised
Cover ==
    {ReqOf(sh, StrV("fft"), BoolV(TRUE), BoolV(FALSE), BoolV(FALSE), PyI(2)) :
        sh \in Shapes(PyF(1, 2), <<2, 3>>)}

\* every form of in_ax and out_ax
PlainForms ==
    {AxList(Coords(n)) : n \in 0..MaxLen}
    \cup {AxList(Tuples(PyF(1, 2), Stair(n))) : n \in 1..MaxLen}
PairForms ==
    {AxPair(Coords(a), Tuples(PyF(1, 2), Stair(b))) : a \in 1..3, b \in 1..3}
    \cup {AxPair(Tuples(PyF(1, 2), Stair(1)), Tuples(PyF(1, 2), Stair(1))),
          AxPair(Coords(1), Coords(1))}
Forms == PlainForms \cup PairForms

\* a plain pair of lists of the same kind would make the code read a
\* spacing out of a coordinate array (or the reverse): not tried
SameKind(ia, oa) ==
    /\ ~ia.isTuple /\ ~oa.isTuple
    /\ Len(ia.l0) > 0 /\ Len(oa.l0) > 0
    /\ ia.l0[1].kind = oa.l0[1].kind

ReqMode ==
    Cover \cup
    {r \in {Req(rank, ia, oa, ftm, BoolV(TRUE), BoolV(TRUE), BoolV(FALSE),
                PyF(3, 2), TRUE) :
               rank \in 0..MaxLen, ia \in Forms, oa \in Forms,
               ftm \in {StrV("fft"), StrV("none")}} :
        /\ ~SameKind(r.in_ax, r.out_ax)
        /\ (PyLen(r.in_ax) # 0 => r.rank = 1)}

\* calls with and without a direction, in every mode
FtVals(n) ==
    {StrV(x) : x \in {"fft", "ifft", "none", "NONE"}}
    \cup StrLists(n, {"fft", "none"})
    \cup {StrL([k \in 1..m |-> "none"]) : m \in {n - 1, n + 1}}
ReqFallback ==
    Cover \cup
    UNION {{ReqOf(sh, ftm, izc, ozc, BoolV(FALSE), PyF(3, 2)) :
               sh \in Shapes(PyF(1, 2), Stair(n)), ftm \in FtVals(n),
               izc \in FewFlags(n), ozc \in FewFlags(n)} : n \in 1..MaxLen}

\* calls whose per-axis arguments are scalars or lists of length N-1, N, N+1
Around(n) == {n - 1, n, n + 1}
FtCfg(n) == {StrV("fft")} \cup {StrL([k \in 1..m |-> "fft"]) : m \in Around(n)}
FlagCfg(n, b) == {BoolV(b)} \cup {BoolL([k \in 1..m |-> b]) : m \in Around(n)}
ReqCfg ==
    Cover \cup
    UNION {{ReqOf(sh, ftm, izc, ozc, herm, PyF(3, 2)) :
               sh \in Shapes(PyF(1, 2), Stair(n)), ftm \in FtCfg(n),
               izc \in FlagCfg(n, TRUE), ozc \in FlagCfg(n, TRUE),
               herm \in FlagCfg(n, FALSE)} : n \in 1..MaxLen}

\* gridded calls: every count and alpha with a few flag settings, and every
\* flag setting with a few counts
FlagPairs(n) ==
    {<<z, z>> : z \in FewFlags(n)}
    \cup {<<BoolV(TRUE), BoolV(FALSE)>>, <<BoolV(FALSE), BoolV(TRUE)>>}
ReqSizes ==
    UNION {{ReqOf(sh, StrV("fft"), zz[1], zz[2], BoolV(FALSE), alpha) :
               sh \in UNION {Gridded(PyF(1, 2), c) : c \in CountSeqs(n)},
               zz \in FlagPairs(n), alpha \in AlphaSet} : n \in 1..3}
ReqOrigins ==
    UNION {{ReqOf(sh, StrV("fft"), izc, ozc, BoolV(FALSE), alpha) :
               sh \in UNION {Gridded(d, Stair(n)) : d \in DxSet},
               izc \in FlagVals(n), ozc \in FlagVals(n),
               alpha \in {PyF(3, 2), PyI(2)}} : n \in 1..3}
ReqGrid == Cover \cup ReqSizes \cup ReqOrigins

InitWith(R) ==
    /\ req \in R
    /\ pc = "validate" /\ err = ""
    /\ mode = MODE_NOTSET /\ N = 0
    /\ classified = [mode |-> MODE_NOTSET, N |-> 0]
    /\ do_fft = FALSE /\ do_ifft = FALSE
    /\ fftaxes = AxesList(<<>>) /\ ifftaxes = AxesList(<<>>)
    /\ do_preshift = FALSE /\ do_postshift = FALSE
    /\ preshift_axes = AxesList(<<>>) /\ postshift_axes = AxesList(<<>>)
    /\ hermitianized_axes = <<>>
    /\ in_ax = req.in_ax /\ out_ax = req.out_ax
    /\ dx = <<>> /\ Nx = <<>> /\ xmin = <<>>
    /\ du = <<>> /\ Nu = <<>> /\ umin = <<>>
    /\ tndx = <<>> /\ lo = <<>> /\ os = <<>>
    /\ steps = <<>>
    /\ names = NamesAtEntry
    /\ data = DataOfInp(req.rank)
    /\ written = {}
    /\ printed = 0
    /\ numpy_strict \in BOOLEAN
    /\ calls = <<>>

InitMode == InitWith(ReqMode)
SpecMode == InitMode /\ [][Next]_vars

InitFallback == InitWith(ReqFallback)
SpecFallback == InitFallback /\ [][Next]_vars

InitCfg == InitWith(ReqCfg)
SpecCfg == InitCfg /\ [][Next]_vars

InitGrid == InitWith(ReqGrid)
SpecGrid == InitGrid /\ [][Next]_vars

\* calls with every direction, per axis and for all axes, in every mode
DirWords == {"fft", "ifft", "none", "FFT", "Ifft"}
FtDir(n) ==
    {StrV(x) : x \in DirWords \cup {"NONE"}}
    \cup StrLists(n, IF n <= 3 THEN DirWords ELSE {"fft", "ifft", "none"})
Same(n, b) == BoolL([k \in 1..n |-> b])
FlagDir(n) ==
    {<<BoolV(TRUE), BoolV(TRUE)>>, <<BoolV(FALSE), BoolV(FALSE)>>,
     <<Same(n, TRUE), Same(n, TRUE)>>, <<Same(n, FALSE), Same(n, FALSE)>>,
     <<BoolV(TRUE), Same(n, FALSE)>>, <<Same(n, TRUE), BoolV(FALSE)>>}
ReqDir ==
    Cover \cup
    UNION {{ReqOf(sh, ftm, zz[1], zz[2], BoolV(FALSE), PyF(3, 2)) :
               sh \in IF n <= 3 THEN Shapes(PyF(1, 2), Stair(n))
                                ELSE {ShapeRR(n)},
               ftm \in FtDir(n), zz \in FlagDir(n)} : n \in 1..MaxLen}

InitDir == InitWith(ReqDir)
SpecDir == InitDir /\ [][Next]_vars

\* calls of MODE_IR and MODE_RI with even pixel counts and a finer alpha
EvenCounts == {2 * k : k \in 1..MaxCount}
AlphaFine ==
    {PyF(q[1], q[2]) :
        q \in {p \in (1..(4 * MaxDen)) \X (1..(2 * MaxDen)) :
                  p[2] <= p[1] /\ p[1] <= 2 * p[2]}}
    \cup {PyI(1), PyI(2)}
EvenSeqs(n) ==
    IF n <= 2 THEN [1..n -> EvenCounts] ELSE {[k \in 1..n |-> 2 * k]}
ReqEven ==
    Cover \cup
    UNION {{ReqOf(sh, StrV("fft"), zz[1], zz[2], BoolV(FALSE), alpha) :
               sh \in UNION {{ShapeIR(PyF(1, 2), c), ShapeRI(PyF(1, 2), c)} :
                                c \in EvenSeqs(n)},
               zz \in FlagPairs(n), alpha \in AlphaFine} : n \in 1..3}

InitEven == InitWith(ReqEven)
SpecEven == InitEven /\ [][Next]_vars

(***************************************************************************)
(* Several calls, one after the other, in one process.                     *)
(***************************************************************************)
\* the rank of the array the shifts and transforms run on
RankAtRun == IF mode = MODE_RR THEN req.rank ELSE N
\* the array operations executed, each with the set of axes it acted on
Run ==
    [k \in 1..Len(steps) |->
        [op |-> steps[k].op, axes |-> AxesOf(steps[k].axes, RankAtRun)]]
\* what the caller gets: the exception, or the returned object, its
\* contents (MODE_RR) or the operations, grids, offsets and gridder
\* arguments that determine its contents (gridded modes)
Outcome ==
    IF pc = "raised"
       THEN [pc |-> pc, err |-> err, ret |-> "", data |-> NoData,
             run |-> <<>>, grid |-> <<>>, off |-> <<>>, herm |-> <<>>]
       ELSE [pc |-> pc, err |-> err, ret |-> names.ret, data |-> data,
             run |-> Run, grid |-> gridVars, off |-> offVars,
             herm |-> IF \E k \in 1..Len(steps) : steps[k].op = "grid"
                         THEN hermitianized_axes ELSE <<>>]

\* the calls that follow a call r: the same one; the other verbosity;
\* other values of enforce_hermitian_symmetry; 'none' for the words that
\* are no direction; the zero-center flags as lists of n equal entries
\* instead of scalars
ListForm(z, n) == IF z.isList THEN z ELSE Same(n, z.b)
\* ftmachine with 'none' in place of every word that is not one of DirWords
NoneFor(w) == IF w \in DirWords THEN w ELSE FTM_NONE
AsNone(f) ==
    IF f.isList THEN StrL([k \in 1..Len(f.l) |-> NoneFor(f.l[k])])
                ELSE StrV(NoneFor(f.s))
Variants(r) ==
    LET n == DimOf(r.rank, r.in_ax, r.out_ax)
    IN  {r, [r EXCEPT !.verbose = ~@]}
        \cup {[r EXCEPT !.enforce_hermitian_symmetry = h] :
                 h \in {BoolV(TRUE), Same(n, TRUE), Same(n, FALSE),
                        Same(n + 1, FALSE)}}
        \cup {[r EXCEPT !.ftmachine = AsNone(@)]}
        \cup {[r EXCEPT !.in_zero_center = ListForm(@, n)],
              [r EXCEPT !.out_zero_center = ListForm(@, n)],
              [r EXCEPT !.in_zero_center = ListForm(@, n),
                        !.out_zero_center = ListForm(@, n)]}

\* the next call: the locals are new, the objects of the caller, the
\* defaults of the function and the numpy in use are the same
NewCall ==
    /\ pc \in {"done", "raised"}
    /\ Len(calls) < MaxCalls - 1
    /\ calls' = Append(calls, [req |-> req, outcome |-> Outcome])
    /\ req' \in Variants(req)
    /\ pc' = "validate" /\ err' = ""
    /\ mode' = MODE_NOTSET /\ N' = 0
    /\ classified' = [mode |-> MODE_NOTSET, N |-> 0]
    /\ do_fft' = FALSE /\ do_ifft' = FALSE
    /\ fftaxes' = AxesList(<<>>) /\ ifftaxes' = AxesList(<<>>)
    /\ do_preshift' = FALSE /\ do_postshift' = FALSE
    /\ preshift_axes' = AxesList(<<>>) /\ postshift_axes' = AxesList(<<>>)
    /\ hermitianized_axes' = <<>>
    /\ in_ax' = req'.in_ax /\ out_ax' = req'.out_ax
    /\ dx' = <<>> /\ Nx' = <<>> /\ xmin' = <<>>
    /\ du' = <<>> /\ Nu' = <<>> /\ umin' = <<>>
    /\ tndx' = <<>> /\ lo' = <<>> /\ os' = <<>>
    /\ steps' = <<>>
    /\ names' = NamesAtEntry
    /\ data' = DataOfInp(req'.rank)
    /\ written' = written \cap CallerOwned
    /\ printed' = 0
    /\ UNCHANGED numpy_strict

NextCalls == Next \/ NewCall

ReqCalls ==
    Cover \cup
    UNION {{ReqOf(sh, ftm, izc, ozc, BoolV(FALSE), PyF(3, 2)) :
               sh \in Shapes(PyF(1, 2), Stair(n)),
               ftm \in {StrV("fft"), StrV("none")},
               izc \in {BoolV(TRUE), BoolV(FALSE)},
               ozc \in {BoolV(TRUE), BoolV(FALSE)}} : n \in 1..3}

InitCalls == InitWith(ReqCalls)
SpecCalls == InitCalls /\ [][NextCalls]_vars

\* calls whose ftmachine holds words that lines 273-289 do not test for,
\* as the scalar and as list entries, alone and next to 'fft' and 'ifft'
Unrecognised == {"dft", "", "FFTW"}
FtWords(n) ==
    {StrV(x) : x \in Unrecognised}
    \cup (IF n <= 2 THEN StrLists(n, {"fft", "dft"})
                    ELSE {StrL([k \in 1..n |-> "FFTW"]),
                          StrL([k \in 1..n |->
                                   IF k = 1 THEN "dft"
                                   ELSE IF k = 2 THEN "Ifft" ELSE ""])})
FlagWords(n) ==
    {<<BoolV(TRUE), BoolV(TRUE)>>, <<BoolV(FALSE), BoolV(FALSE)>>,
     <<Same(n, TRUE), BoolV(FALSE)>>}
ReqWords ==
    Cover \cup
    UNION {{ReqOf(sh, ftm, zz[1], zz[2], BoolV(FALSE), PyF(3, 2)) :
               sh \in Shapes(PyF(1, 2), Stair(n)),
               ftm \in FtWords(n), zz \in FlagWords(n)} : n \in 1..3}

InitWords == InitWith(ReqWords)
SpecWords == InitWords /\ [][NextCalls]_vars

(***************************************************************************)
(* Properties of the classification (SpecMode).                            *)
(***************************************************************************)
Classified == classified.mode # MODE_NOTSET
BothPlain == ~req.in_ax.isTuple /\ ~req.out_ax.isTuple
Paired == req.in_ax.isTuple \/ req.out_ax.isTuple
\* the length of the side that is a plain list, one side being a tuple
PlainSideLen == IF req.in_ax.isTuple THEN Len(req.out_ax.l0) ELSE Len(req.in_ax.l0)
ClassifiedAs(m, n) == classified.mode = m /\ classified.N = n

\* C1 as stated: the four rules, the paired rule applying whenever either
\* side is a tuple
C1_Original ==
    Classified =>
        /\ (PyLen(req.in_ax) = 0 /\ PyLen(req.out_ax) = 0)
               => ClassifiedAs(MODE_RR, req.rank)
        /\ Paired => ClassifiedAs(MODE_II, PlainSideLen)
        /\ (BothPlain /\ PyLen(req.in_ax) # 0 /\ req.in_ax.l0[1].kind = "tup")
               => ClassifiedAs(MODE_RI, Len(req.in_ax.l0))
        /\ (BothPlain /\ PyLen(req.in_ax) # 0
              /\ validate_iterrable_types(req.in_ax.l0, "arr"))
               => ClassifiedAs(MODE_IR, Len(req.in_ax.l0))

\* C1 (amended): every call that passes type validation is classified by
\* the rules taken in this order: in_ax empty -> RR with N = rank of inp,
\* whatever out_ax is; otherwise either side a tuple -> II with N = length
\* of the plain-list side; otherwise first element of in_ax a tuple -> RI,
\* in_ax of coordinate arrays -> IR, both with N = len(in_ax).
C1_ModeClassification ==
    /\ (pc \notin {"validate", "classify"} /\ err \notin
            {"TypeError:both_tuples", "TypeError:in_ax[0]", "TypeError:in_ax[1]",
             "TypeError:out_ax[0]", "TypeError:out_ax[1]"}) => Classified
    /\ Classified =>
        /\ classified.mode \in {MODE_RR, MODE_IR, MODE_RI, MODE_II}
        /\ PyLen(req.in_ax) = 0 => ClassifiedAs(MODE_RR, req.rank)
        /\ (PyLen(req.in_ax) # 0 /\ Paired)
               => ClassifiedAs(MODE_II, PlainSideLen)
        /\ (BothPlain /\ PyLen(req.in_ax) # 0 /\ req.in_ax.l0[1].kind = "tup")
               => ClassifiedAs(MODE_RI, Len(req.in_ax.l0))
        /\ (BothPlain /\ PyLen(req.in_ax) # 0
              /\ validate_iterrable_types(req.in_ax.l0, "arr"))
               => ClassifiedAs(MODE_IR, Len(req.in_ax.l0))

\* an empty in_ax with out_ax in paired form has been classified RR
C1_Witness ==
    /\ PyLen(req.in_ax) = 0 /\ req.out_ax.isTuple
    /\ ClassifiedAs(MODE_RR, req.rank) /\ req.rank = 2

\* C3 as stated: a call classified II, with in_ax paired as well as with
\* out_ax paired, goes on to grid the input; it is never refused because
\* the grid is defined on in_ax.
C3_BothSidesProceed ==
    /\ (Classified /\ Paired /\ PyLen(req.in_ax) # 0) => classified.mode = MODE_II
    /\ (classified.mode = MODE_II /\ pc = "raised")
           => err # "Exception:in_ax_grid_not_supported"

DimFail ==
    pc = "raised" /\ err \in {"Exception:dimensionality",
                              "Exception:unsupported_dims"}
BadDims ==
    \/ classified.N = 0
    \/ classified.N > 3 /\ classified.mode \in {MODE_IR, MODE_RI, MODE_II}

\* C4: a call fails on its dimensionality exactly when N = 0, or N > 3 in a
\* mode other than RR, and then nothing has been executed; a call classified
\* RR with rank >= 1 never fails on its dimensionality.
C4_DimensionLimit ==
    /\ DimFail => (BadDims /\ steps = <<>>)
    /\ (Classified /\ BadDims) => (pc \in {"dims", "raised"} /\ steps = <<>>)
    /\ (classified.mode = MODE_RR /\ req.rank >= 1) => ~DimFail

C4_Witness ==
    /\ DimFail /\ classified.N > 3 /\ classified.mode = MODE_II /\ steps = <<>>

\* C5 as stated: with in_ax and out_ax both plain lists, a call that has
\* executed a shift or transform step has lists of equal length.
C5_Original ==
    (BothPlain /\ steps # <<>>) => PyLen(req.in_ax) = PyLen(req.out_ax)

\* C5 (amended): with in_ax and out_ax both plain lists and in_ax not
\* empty, a call that has executed a shift or transform step has lists of
\* equal length, and a call with lists of different lengths fails with the
\* length error before any step; with in_ax empty the length of out_ax is
\* not checked.
C5_EqualLengths ==
    /\ (BothPlain /\ PyLen(req.in_ax) # 0 /\ steps # <<>>)
           => PyLen(req.in_ax) = PyLen(req.out_ax)
    /\ (BothPlain /\ PyLen(req.in_ax) # 0
          /\ PyLen(req.in_ax) # PyLen(req.out_ax))
           => /\ pc \in {"validate", "classify", "raised"}
              /\ pc = "raised" => err = "TypeError:len"
    /\ (BothPlain /\ PyLen(req.in_ax) = 0) => err # "TypeError:len"

C5_Witness ==
    /\ BothPlain /\ PyLen(req.in_ax) = 2 /\ PyLen(req.out_ax) = 3
    /\ pc = "raised" /\ err = "TypeError:len" /\ steps = <<>>

(***************************************************************************)
(* Properties of the shift-only fallback (SpecFallback).                   *)
(***************************************************************************)
IsDirection(x) == Lower(x) \in {FTM_FFT, FTM_IFFT}
\* no direction is requested on any axis
NoDirection ==
    IF req.ftmachine.isList
        THEN \A k \in 1..Len(req.ftmachine.l) : ~IsDirection(req.ftmachine.l[k])
        ELSE ~IsDirection(req.ftmachine.s)
WantsShift(z) == IF z.isList THEN \E k \in 1..Len(z.l) : z.l[k] ELSE z.b
OpsOf(q) == [k \in 1..Len(q) |-> q[k].op]
ShiftOnlyOps ==
    (IF WantsShift(req.in_zero_center) THEN <<"preshift">> ELSE <<>>)
    \o <<"copy">>
    \o (IF WantsShift(req.out_zero_center) THEN <<"postshift">> ELSE <<>>)
GriddedModes == {MODE_IR, MODE_RI, MODE_II}
AfterFallback ==
    pc \in {"shifts", "hermitian", "summary", "rr", "ir_grid", "ri_plan",
            "ii_plan", "done"}

WrongLen(z) == z.isList /\ Len(z.l) # classified.N
AnyWrongLen ==
    \/ WrongLen(req.ftmachine) \/ WrongLen(req.in_zero_center)
    \/ WrongLen(req.out_zero_center) \/ WrongLen(req.enforce_hermitian_symmetry)

\* C6: a call with ftmachine, in_zero_center, out_zero_center or
\* enforce_hermitian_symmetry given as a list whose length differs from N
\* never reaches the branch on mode, in any mode: it is still in the
\* argument checks or has failed, and no step has been executed.
C6_ConfigLength ==
    (Classified /\ AnyWrongLen) =>
        /\ pc \in {"dims", "ftmachine", "fallback", "shifts", "hermitian", "raised"}
        /\ steps = <<>>
        /\ pc # "raised" => ENABLED Next

C6_Witness ==
    /\ classified.mode = MODE_RR
    /\ WrongLen(req.enforce_hermitian_symmetry)
    /\ ~WrongLen(req.ftmachine) /\ ~WrongLen(req.in_zero_center)
    /\ ~WrongLen(req.out_zero_center)
    /\ pc = "raised" /\ err = "Exception:hermitian_length" /\ steps = <<>>

(***************************************************************************)
(* Properties of the gridded modes (SpecGrid).                             *)
(***************************************************************************)
\* C7 as stated: a call that fails has executed no step: no working array
\* has been allocated and no gridding, shift or transform has run.
C7_ValidationPrecedesWork == pc = "raised" => steps = <<>>

\* the counts and spacings of the regular side of the call
RegularSide ==
    IF req.out_ax.isTuple THEN req.out_ax.l1
    ELSE IF req.in_ax.isTuple THEN req.in_ax.l1
    ELSE IF req.in_ax.l0[1].kind = "tup" THEN req.in_ax.l0
    ELSE req.out_ax.l0
Planned == mode \in GriddedModes /\ Nu # <<>>

\* C8 as stated: in every gridded mode and for N in 1..3 the working-grid
\* size of each axis is the integer floor(alpha * count).
C8_WorkingGridSize ==
    Planned =>
        \A k \in 1..N :
            Nu[k] = PyI((req.alpha.n * RegularSide[k].n) \div req.alpha.d)

\* the zero-center flag of axis k as the caller gave it
FlagOf(z, k) == IF z.isList THEN z.l[k] ELSE z.b
\* the value of number a is num/den
ValueIs(a, num, den) == a.n * den = num * a.d
\* the side of the working grid: the output side in MODE_RI, else the input
WorkFlag(k) ==
    IF mode = MODE_RI THEN FlagOf(req.out_zero_center, k)
                      ELSE FlagOf(req.in_zero_center, k)
FinalFlag(k) ==
    IF mode = MODE_RI THEN FlagOf(req.in_zero_center, k)
                      ELSE FlagOf(req.out_zero_center, k)

\* C9: in IR, RI and II (out_ax paired), N in 1..3, the working-grid origin
\* of axis k is -0.5*size*spacing when the zero-center flag of axis k on the
\* side of the working grid is set and 0 otherwise, and the final-grid
\* origin is -0.5*count*spacing or 0 by the flag of axis k on the other
\* side; the flags of the other axes play no part.
C9_GridOrigin ==
    Planned =>
        \A k \in 1..N :
            LET c == RegularSide[k].n
                sp == RegularSide[k].dx
            IN  /\ Nx[k] = PyI(c) /\ dx[k] = sp
                /\ ValueIs(du[k], sp.d * req.alpha.d, sp.n * c * req.alpha.n)
                /\ IF WorkFlag(k)
                      THEN ValueIs(umin[k], -(Nu[k].n * du[k].n),
                                   2 * Nu[k].d * du[k].d)
                      ELSE umin[k] = Zero
                /\ IF FinalFlag(k)
                      THEN ValueIs(xmin[k], -(c * sp.n), 2 * sp.d)
                      ELSE xmin[k] = Zero

C9_Witness ==
    /\ mode = MODE_RI /\ N = 3 /\ pc = "done"
    /\ req.in_zero_center = BoolL(<<FALSE, TRUE, FALSE>>)
    /\ req.out_zero_center = BoolL(<<TRUE, FALSE, FALSE>>)
    /\ xmin[1] = Zero /\ xmin[2] # Zero /\ xmin[3] = Zero
    /\ umin[1] # Zero /\ umin[2] = Zero /\ umin[3] = Zero

\* C10: in MODE_IR, alpha >= 1 and counts >= 1, the crop window
\* [offset, offset + count) of every axis lies inside the working grid
\* [0, floor(alpha*count)), so the result has count elements on that axis.
C10_CropWindow ==
    (mode = MODE_IR /\ pc = "done" /\ Leq(PyI(1), req.alpha)) =>
        \A k \in 1..N :
            LET c == req.out_ax.l0[k].n
            IN  /\ c >= 1
                /\ IsInt(lo[k]) /\ lo[k].d = 1
                /\ 0 <= lo[k].n
                /\ lo[k].n + c <= (req.alpha.n * c) \div req.alpha.d
                /\ Nu[k] = PyI((req.alpha.n * c) \div req.alpha.d)
                /\ FlagOf(req.out_zero_center, k) =>
                       lo[k].n = (c * (req.alpha.n - req.alpha.d))
                                     \div (2 * req.alpha.d)
                /\ ~FlagOf(req.out_zero_center, k) => lo[k].n = 0

C10_Witness ==
    /\ mode = MODE_IR /\ pc = "done" /\ N = 3
    /\ lo[1].n = 0 /\ lo[2].n > 0 /\ lo[3].n = 0
    /\ lo[2].n + req.out_ax.l0[2].n <= Nu[2].n
    /\ "crop" \in {steps[k].op : k \in 1..Len(steps)}

(***************************************************************************)
(* Properties of the shifts and directions.                                *)
(***************************************************************************)
\* the axes (from 1) a zero-center argument marks
Marks(z) ==
    IF z.isList THEN {j \in 1..Len(z.l) : z.l[j]}
    ELSE IF z.b THEN 1..classified.N ELSE {}
\* zero-centering is requested on axis k and on no other axis, on the
\* input side or on the output side
OnlyAxis(k) ==
    /\ Classified
    /\ \/ Marks(req.in_zero_center) = {k} /\ Marks(req.out_zero_center) = {}
       \/ Marks(req.in_zero_center) = {} /\ Marks(req.out_zero_center) = {k}

Forward == {"fft", "FFT", "Fft"}
Inverse == {"ifft", "IFFT", "Ifft"}
\* the axes (from 0) on which the call asks for a word of the set S
Asked(S) ==
    IF req.ftmachine.isList
       THEN {i - 1 : i \in {j \in 1..Len(req.ftmachine.l) :
                                 req.ftmachine.l[j] \in S}}
       ELSE IF req.ftmachine.s \in S THEN 0..(classified.N - 1) ELSE {}
\* the axes of the steps op executed, and how many of them there are
StepsOf(op) == {k \in 1..Len(steps) : steps[k].op = op}
DirectionsResolved ==
    pc \in {"fallback", "shifts", "hermitian", "summary", "rr", "ir_grid",
            "ir_fft", "ir_crop", "ri_plan", "ri_pad", "ri_fft", "ri_degrid",
            "ii_plan", "ii_grid", "ii_pad", "ii_fft", "ii_corr", "ii_degrid",
            "done"}

\* C12: once ftmachine is resolved, the forward axes are the axes whose
\* entry is 'fft' and the inverse axes those whose entry is 'ifft', in any
\* letter case, each axis listed once and the two sets disjoint; a scalar
\* word selects all axes through None; and a call that returns has run at
\* most one forward and one inverse transform, on exactly those axes.
C12_PerAxisDirection ==
    /\ DirectionsResolved =>
          /\ do_fft = (Asked(Forward) # {})
          /\ do_ifft = (Asked(Inverse) # {})
          /\ IF req.ftmachine.isList
                THEN /\ ~fftaxes.isNone /\ ~ifftaxes.isNone
                     /\ AxesOf(fftaxes, N) = Asked(Forward)
                     /\ AxesOf(ifftaxes, N) = Asked(Inverse)
                     /\ Len(fftaxes.l) = Cardinality(Asked(Forward))
                     /\ Len(ifftaxes.l) = Cardinality(Asked(Inverse))
                     /\ AxesOf(fftaxes, N) \cap AxesOf(ifftaxes, N) = {}
                ELSE /\ fftaxes.isNone = (Asked(Forward) # {})
                     /\ ifftaxes.isNone = (Asked(Inverse) # {})
                     /\ ~(do_fft /\ do_ifft)
    /\ pc = "done" =>
          /\ Cardinality(StepsOf("fft")) = IF Asked(Forward) = {} THEN 0 ELSE 1
          /\ Cardinality(StepsOf("ifft")) = IF Asked(Inverse) = {} THEN 0 ELSE 1
          /\ \A k \in StepsOf("fft") :
                 AxesOf(steps[k].axes, N) = Asked(Forward)
          /\ \A k \in StepsOf("ifft") :
                 AxesOf(steps[k].axes, N) = Asked(Inverse)

C12_Witness ==
    /\ pc = "done" /\ req.ftmachine = StrL(<<"FFT", "none", "Ifft">>)
    /\ fftaxes = AxesList(<<0>>) /\ ifftaxes = AxesList(<<2>>)
    /\ StepsOf("fft") # {} /\ StepsOf("ifft") # {}

\* C18 as stated: in MODE_II with the grid on out_ax, alpha >= 1 and N in
\* 1..3, every dimension of the doubly oversampled array is an int, every
\* pad offset is an int, and the window [offset, offset + size) of every
\* axis lies inside the array.
C18_IntegerOffsetsII ==
    (mode = MODE_II /\ req.out_ax.isTuple /\ Leq(PyI(1), req.alpha)
       /\ os # <<>>) =>
        /\ AllInt(os)
        /\ lo # <<>> =>
              \A k \in 1..N :
                  /\ IsInt(lo[k])
                  /\ Leq(PyI(0), lo[k])
                  /\ Leq(Sub(lo[k], Sub(PyI(0), Nu[k])), os[k])

StageOf(op) ==
    CASE op = "grid" -> "grid"
      [] op = "preshift" -> "pre-shift"
      [] op \in {"fft", "ifft", "copy"} -> "transform"
      [] op = "postshift" -> "post-shift"
      [] op = "crop" -> "crop"
      [] op = "gridcorr" -> "correct"
      [] op \in {"alloc", "pad"} -> "pad"
      [] op = "degrid" -> "degrid"
      [] OTHER -> ""
\* the stages of the steps q, in order, a run of steps of one stage counted once
RECURSIVE StagesOf(_)
StagesOf(q) ==
    IF q = <<>> THEN <<>>
    ELSE LET rest == StagesOf(Tail(q))
             st == StageOf(Head(q).op)
         IN  IF st = "" \/ (rest # <<>> /\ Head(rest) = st)
                THEN rest ELSE <<st>> \o rest
IsPrefix(a, b) == Len(a) <= Len(b) /\ a = SubSeq(b, 1, Len(a))
ShiftStage(z, st) == IF WantsShift(z) THEN <<st>> ELSE <<>>
MiddleStages ==
    ShiftStage(req.in_zero_center, "pre-shift") \o <<"transform">>
    \o ShiftStage(req.out_zero_center, "post-shift")
StagesIR == <<"grid">> \o MiddleStages \o <<"crop", "correct">>
StagesRI == <<"correct", "pad">> \o MiddleStages \o <<"degrid">>

\* C17: a call processed in MODE_IR runs grid, pre-shift, transform,
\* post-shift, crop, division by the grid correction, in this order, and a
\* call processed in MODE_RI division by the grid correction, zero-pad,
\* pre-shift, transform, post-shift, degrid: at every moment the stages
\* run so far are the first ones of that list, a call that returns has run
\* them all, no operation runs twice, and a shift stage is left out
\* exactly when its zero-center flag marks no axis.
C17_StageOrder ==
    /\ mode = MODE_IR =>
          /\ IsPrefix(StagesOf(steps), StagesIR)
          /\ pc = "done" => StagesOf(steps) = StagesIR
    /\ mode = MODE_RI =>
          /\ IsPrefix(StagesOf(steps), StagesRI)
          /\ pc = "done" => StagesOf(steps) = StagesRI
    /\ mode \in {MODE_IR, MODE_RI} =>
          \A op \in {steps[k].op : k \in 1..Len(steps)} :
              Cardinality(StepsOf(op)) = 1

C17_Witness ==
    /\ mode = MODE_RI /\ pc = "done" /\ N = 2
    /\ req.ftmachine = StrL(<<"ifft", "fft">>)
    /\ StagesOf(steps) = <<"correct", "pad", "pre-shift", "transform",
                           "post-shift", "degrid">>
    /\ OpsOf(steps) = <<"astype", "gridcorr", "alloc", "pad", "preshift",
                        "fft", "ifft", "postshift", "degrid">>

\* the resolved form of a zero-center argument
AllTrue(z) == z.isList /\ z.l # <<>> /\ \A k \in 1..Len(z.l) : z.l[k]
AllFalse(z) == z.isList /\ \A k \in 1..Len(z.l) : ~z.l[k]
EveryAxis == AxesList([k \in 1..N |-> k - 1])
SentinelKept(z, do, axes) ==
    /\ (~z.isList /\ z.b) => (do /\ axes = AxesNone)
    /\ AllTrue(z) => (do /\ axes = EveryAxis /\ axes # AxesNone)
    /\ ((~z.isList /\ ~z.b) \/ AllFalse(z)) => (~do /\ axes = AxesList(<<>>))
ShiftsResolved ==
    pc \in {"hermitian", "summary", "rr", "ir_grid",
            "ir_fft", "ir_crop", "ri_plan", "ri_pad", "ri_fft", "ri_degrid",
            "ii_plan", "ii_grid", "ii_pad", "ii_fft", "ii_corr", "ii_degrid",
            "done"}

\* C13: a scalar true zero-center flag resolves to None, an explicit list
\* marking every axis to the list of all axis numbers, which is not None,
\* and both are kept as resolved until the shifts run and the origins and
\* offsets are computed (the shift receives the resolved value); a scalar
\* false and an all-false list both resolve to no shift.
C13_AllAxesSentinel ==
    /\ ShiftsResolved =>
          /\ SentinelKept(req.in_zero_center, do_preshift, preshift_axes)
          /\ SentinelKept(req.out_zero_center, do_postshift, postshift_axes)
    /\ \A k \in StepsOf("preshift") : steps[k].axes = preshift_axes
    /\ \A k \in StepsOf("postshift") : steps[k].axes = postshift_axes
    /\ (StepsOf("preshift") # {}) => do_preshift
    /\ (StepsOf("postshift") # {}) => do_postshift
    /\ pc = "done" => /\ do_preshift = (StepsOf("preshift") # {})
                      /\ do_postshift = (StepsOf("postshift") # {})

C13_Witness ==
    /\ pc = "done" /\ mode = MODE_RI /\ N = 3
    /\ req.in_zero_center = BoolL(<<TRUE, TRUE, TRUE>>)
    /\ req.out_zero_center = BoolV(FALSE)
    /\ preshift_axes = AxesList(<<0, 1, 2>>) /\ ~do_postshift
    /\ postshift_axes = AxesList(<<>>)

(***************************************************************************)
(* Properties of calls made one after the other (SpecCalls).               *)
(***************************************************************************)
Terminated == pc \in {"done", "raised"}
\* the earlier calls of which the present call differs at most in field f
Earlier(f) ==
    {k \in 1..Len(calls) :
        \A g \in DOMAIN req : g # f => calls[k].req[g] = req[g]}

\* C14: no call writes into an object of the caller (inp, the containers
\* in_ax and out_ax, the configuration lists) or into the default lists
\* of the function; the returned array is a new object, never inp; and a
\* call with the arguments of an earlier call has the outcome of that call.
C14_Statelessness ==
    /\ written \cap CallerOwned = {}
    /\ pc = "done" => names.ret \notin {"", CALLER_INP}
    /\ Terminated =>
          \A k \in 1..Len(calls) :
              calls[k].req = req => calls[k].outcome = Outcome

C14_Witness ==
    /\ Len(calls) = 1 /\ calls[1].req = req /\ pc = "done"
    /\ req.ftmachine = StrV("none") /\ req.rank = 2 /\ PyLen(req.in_ax) = 0
    /\ req.in_zero_center = BoolV(FALSE) /\ req.out_zero_center = BoolV(FALSE)
    /\ names.inp = CALLER_INP /\ names.ret = "copy"
    /\ written # {}

\* C15: a call that differs from an earlier call only in verbose has the
\* outcome of that call, and the printed summary never raises, with axes
\* given as None as with axes given as lists.
C15_VerbosityNonInterference ==
    /\ err \notin {"UnboundLocalError:pstr", "AttributeError:count",
                   "IndexError:hermitianized_axes"}
    /\ Terminated =>
          \A k \in Earlier("verbose") : calls[k].outcome = Outcome

C15_Witness ==
    /\ Len(calls) = 1 /\ calls[1].req.verbose /\ ~req.verbose
    /\ Earlier("verbose") = {1}
    /\ pc = "done" /\ mode = MODE_IR
    /\ fftaxes = AxesNone /\ preshift_axes = AxesNone
    /\ printed = 0 /\ calls[1].outcome = Outcome

\* the request asks for regular to regular: in_ax is empty
AsksRR == PyLen(req.in_ax) = 0
HermWellFormed(r) ==
    r.enforce_hermitian_symmetry.isList
        => Len(r.enforce_hermitian_symmetry.l) = DimOf(r.rank, r.in_ax, r.out_ax)

ListFormOf(k) ==
    LET r == calls[k].req
        n == DimOf(r.rank, r.in_ax, r.out_ax)
    IN  /\ req # r
        /\ \/ req = [r EXCEPT !.in_zero_center = ListForm(@, n)]
           \/ req = [r EXCEPT !.out_zero_center = ListForm(@, n)]
           \/ req = [r EXCEPT !.in_zero_center = ListForm(@, n),
                              !.out_zero_center = ListForm(@, n)]

\* C19 as stated: for N in 1..3, a call with a scalar zero-center flag b
\* replaced by the list of N entries b has the outcome of the call with
\* the scalar: the same origins, offsets, shifted axes and result.
C19_ScalarListEquivalence ==
    (Terminated /\ classified.N \in 1..3) =>
        \A k \in 1..Len(calls) : ListFormOf(k) => calls[k].outcome = Outcome

\* the same, for the calls whose array has N axes when it is shifted
ScalarListOutsideFallback ==
    (Terminated /\ classified.N \in 1..3 /\ RankAtRun = N) =>
        \A k \in 1..Len(calls) : ListFormOf(k) => calls[k].outcome = Outcome

(***************************************************************************)
(* Properties of the calls of the gridder (SpecGrid).                      *)
(***************************************************************************)
\* C21 as stated: in MODE_IR and MODE_II, N in 1..3, every call of the
\* gridder gets alpha and then W directly after the last grid origin.
C21_KernelArguments ==
    \A k \in StepsOf("grid") :
        /\ mode \in {MODE_IR, MODE_II}
        /\ steps[k].kernel = <<req.alpha, PyI(req.W)>>

(***************************************************************************)
(* Properties of the words of ftmachine that are no direction (SpecWords). *)
(***************************************************************************)
\* the axes (from 0) whose word is none of 'fft', 'ifft', 'none'
UnknownAxes(r, n) ==
    IF r.ftmachine.isList
       THEN {i - 1 : i \in {j \in 1..Len(r.ftmachine.l) :
                                 r.ftmachine.l[j] \in Unrecognised}}
       ELSE IF r.ftmachine.s \in Unrecognised THEN 0..(n - 1) ELSE {}
HasUnknown(r) ==
    IF r.ftmachine.isList
       THEN \E j \in 1..Len(r.ftmachine.l) : r.ftmachine.l[j] \in Unrecognised
       ELSE r.ftmachine.s \in Unrecognised
NoneAsked == Asked(Forward) = {} /\ Asked(Inverse) = {}
WithNone(r) == [r EXCEPT !.ftmachine = AsNone(@)]

\* C22: a call whose ftmachine, scalar or list entry, holds a word that is
\* none of 'fft', 'ifft', 'none' in any letter case is not refused for
\* that word; no transform is set up on the axes of such a word; when no
\* axis is left with a transform the call is processed in MODE_RR by
\* shifts and a copy only; and the call ends as the same call with 'none'
\* in place of each such word ends: the same exception or the same result.
C22_UnrecognisedAsNone ==
    /\ HasUnknown(req) =>
          /\ err # "Exception:ftmachine_length"
          /\ DirectionsResolved =>
                /\ AxesOf(fftaxes, N) \cap UnknownAxes(req, N) = {}
                /\ AxesOf(ifftaxes, N) \cap UnknownAxes(req, N) = {}
                /\ do_fft = (Asked(Forward) # {})
                /\ do_ifft = (Asked(Inverse) # {})
          /\ (NoneAsked /\ AfterFallback) =>
                /\ mode = MODE_RR
                /\ \A k \in 1..Len(steps) :
                       steps[k].op \in {"preshift", "copy", "postshift"}
                /\ pc = "done" => OpsOf(steps) = ShiftOnlyOps
    /\ Terminated =>
          \A k \in 1..Len(calls) :
              WithNone(calls[k].req) = WithNone(req)
                  => calls[k].outcome = Outcome

C22_Witness ==
    /\ Len(calls) = 1
    /\ calls[1].req.ftmachine = StrL(<<"fft", "dft">>)
    /\ req = WithNone(calls[1].req)
    /\ pc = "done" /\ mode = MODE_IR
    /\ calls[1].outcome.pc = "done"
    /\ \E k \in 1..Len(steps) : steps[k].op = "grid"

====
